---- MODULE Spec2Model ----
(***************************************************************************)
(* Model of main.py of github-contribution-tracker: the organization       *)
(* lookup, the cursor-paginated fetch loop, the normalizer                 *)
(* (process_contributions) and the markdown export, as one sequential      *)
(* run of main().                                                          *)
(***************************************************************************)
EXTENDS Integers, Sequences, FiniteSets, TLC

VARIABLES
    pc,                 \* position of main(): see PcValues
    organization_id,    \* local of fetch_contributions (line 37)
    all_contributions,  \* the accumulator of fetch_contributions (lines 38-48)
    pr_cursor,          \* line 107
    has_more_prs,       \* line 108
    total_prs_fetched,  \* line 109
    contributions,      \* main's local: result of process_contributions
    file,               \* content of contributions.md
    stdout,             \* what print() has written
    error,              \* the exception that left main(), or NoError
    requests,           \* history: every requests.post issued, in order
    responses,          \* history: the outcome of every request, in order
    pages,              \* history: every successful page body received, in order
    calls               \* history: how often each function was entered

vars == <<pc, organization_id, all_contributions, pr_cursor, has_more_prs,
          total_prs_fetched, contributions, file, stdout, error, requests,
          responses, pages, calls>>

----------------------------------------------------------------------------
(* Bounds of the model *)

\* longest page chain the modelled server serves
MaxPages == 3
\* most entries (pull requests, issues and repositories together) of an Aggregate
\* handed to the normalizer on its own
MaxEntries == 4

----------------------------------------------------------------------------
(* Values *)

None == "None"
\* a JSON null where an object is expected
Null == [null |-> TRUE]
\* the accumulator before line 38 binds it
Unbound == [unbound |-> TRUE]
\* main's contributions before line 243 binds it
NoRecords == <<>>
NoError == "NoError"
Previous == <<"<previous content>">>

Username == "octocat"
Organization == "acme"
OrgId == "O_kgDOAcme"

\* sequences over S of length at most n
RECURSIVE BSeq(_, _)
BSeq(S, n) ==
    IF n = 0 THEN {<<>>}
    ELSE LET shorter == BSeq(S, n - 1)
         IN  shorter \cup {Append(s, x) : s \in {t \in shorter : Len(t) = n - 1}, x \in S}

RECURSIVE SumSeq(_)
SumSeq(s) == IF s = <<>> THEN 0 ELSE Head(s) + SumSeq(Tail(s))

RECURSIVE Flatten(_)
Flatten(ss) == IF ss = <<>> THEN <<>> ELSE Head(ss) \o Flatten(Tail(ss))

Map(f(_), s) == [k \in 1..Len(s) |-> f(s[k])]

----------------------------------------------------------------------------
(* datetime.strptime(ts, "%Y-%m-%dT%H:%M:%SZ").strftime("%Y-%m-%d")        *)

Digits == <<"0", "1", "2", "3", "4", "5", "6", "7", "8", "9">>

IsDigit(c) == \E k \in 1..10 : Digits[k] = c

DigitVal(c) == (CHOOSE k \in 1..10 : Digits[k] = c) - 1

CharAt(s, k) == IF k >= 1 /\ k <= Len(s) THEN SubSeq(s, k, k) ELSE ""

\* value of the w digits of s starting at position k, or -1 if they are not all digits
RECURSIVE NumAt(_, _, _)
NumAt(s, k, w) ==
    IF w = 0 THEN 0
    ELSE IF ~IsDigit(CharAt(s, k + w - 1)) THEN -1
    ELSE LET hi == NumAt(s, k, w - 1)
         IN  IF hi = -1 THEN -1 ELSE 10 * hi + DigitVal(CharAt(s, k + w - 1))

\* One numeric directive of the format at position k of s. _strptime turns each
\* directive into a regular expression that prefers the two-digit alternative and
\* falls back to one digit: two digits of a value in lo2..hi2, or else one digit of
\* a value in lo1..9. The result is <<value, width>>, or <<-1, 0>> when nothing matches.
Field(s, k, lo2, hi2, lo1) ==
    LET n2 == NumAt(s, k, 2)
        n1 == NumAt(s, k, 1)
    IN  IF n2 # -1 /\ n2 >= lo2 /\ n2 <= hi2 THEN <<n2, 2>>
        ELSE IF n1 # -1 /\ n1 >= lo1 THEN <<n1, 1>>
        ELSE <<-1, 0>>

\* %Y: exactly four digits
Year4(s, k) == LET n == NumAt(s, k, 4) IN IF n = -1 THEN <<-1, 0>> ELSE <<n, 4>>

\* %m: 1[0-2]|0[1-9]|[1-9]
Month(s, k) == Field(s, k, 1, 12, 1)
\* %d: 3[0-1]|[1-2]\d|0[1-9]|[1-9] (and | [1-9], a space for the leading zero,
\* which no timestamp of this model has)
Day(s, k) == Field(s, k, 1, 31, 1)
\* %H: 2[0-3]|[0-1]\d|\d
Hour(s, k) == Field(s, k, 0, 23, 0)
\* %M: [0-5]\d|\d
Minute(s, k) == Field(s, k, 0, 59, 0)
\* %S: 6[0-1]|[0-5]\d|\d
Second(s, k) == Field(s, k, 0, 61, 0)

\* literal characters of the format; the expression is compiled with re.IGNORECASE
Lit(s, k, c, lower) == CharAt(s, k) = c \/ CharAt(s, k) = lower

IsLeap(y) == (y % 4 = 0) /\ ((y % 100 # 0) \/ (y % 400 = 0))

DaysInMonth(y, m) ==
    IF m = 2 THEN (IF IsLeap(y) THEN 29 ELSE 28)
    ELSE IF m \in {4, 6, 9, 11} THEN 30 ELSE 31

ParseFailure == [ok |-> FALSE]

\* datetime.strptime(ts, "%Y-%m-%dT%H:%M:%SZ"): the parsed fields, or ParseFailure
\* where the call raises ValueError
strptime(ts) ==
    LET Y  == Year4(ts, 1)
        p1 == 1 + Y[2]
        m  == Month(ts, p1 + 1)
        p2 == p1 + 1 + m[2]
        d  == Day(ts, p2 + 1)
        p3 == p2 + 1 + d[2]
        H  == Hour(ts, p3 + 1)
        p4 == p3 + 1 + H[2]
        M  == Minute(ts, p4 + 1)
        p5 == p4 + 1 + M[2]
        S  == Second(ts, p5 + 1)
        p6 == p5 + 1 + S[2]
    IN  IF /\ Y[2] = 4
           /\ Lit(ts, p1, "-", "-") /\ m[2] > 0
           /\ Lit(ts, p2, "-", "-") /\ d[2] > 0
           /\ Lit(ts, p3, "T", "t") /\ H[2] > 0
           /\ Lit(ts, p4, ":", ":") /\ M[2] > 0
           /\ Lit(ts, p5, ":", ":") /\ S[2] > 0
           /\ Lit(ts, p6, "Z", "z")
           /\ Len(ts) = p6
           /\ Y[1] >= 1
           /\ d[1] <= DaysInMonth(Y[1], m[1])
        THEN [ok |-> TRUE, year |-> Y[1], month |-> m[1], day |-> d[1],
              hour |-> H[1], minute |-> M[1], second |-> S[1]]
        ELSE ParseFailure

Pad(n, w) ==
    LET str == ToString(n)
    IN  IF Len(str) >= w THEN str
        ELSE SubSeq("0000", 1, w - Len(str)) \o str

\* .strftime("%Y-%m-%d"), for the years 1000..9999 (below 1000 the width of %Y
\* depends on the platform's C library; the timestamps of this model are of 2024)
strftime(dt) == Pad(dt.year, 4) \o "-" \o Pad(dt.month, 2) \o "-" \o Pad(dt.day, 2)

\* code point order of the characters a formatted date is made of
Ord(c) == IF c = "-" THEN 45 ELSE 48 + DigitVal(c)

\* a < b as Python compares str values
RECURSIVE StrLess(_, _)
StrLess(a, b) ==
    IF b = "" THEN FALSE
    ELSE IF a = "" THEN TRUE
    ELSE IF CharAt(a, 1) = CharAt(b, 1)
         THEN StrLess(SubSeq(a, 2, Len(a)), SubSeq(b, 2, Len(b)))
         ELSE Ord(CharAt(a, 1)) < Ord(CharAt(b, 1))

----------------------------------------------------------------------------
(* Response bodies the modelled server can send *)

PullRequest(title, repo, state, createdAt) ==
    [pullRequest |-> [title |-> title, url |-> "https://github.com/acme/" \o repo \o "/pull/" \o title,
                      state |-> state, repository |-> [name |-> repo],
                      createdAt |-> createdAt]]

Issue(title, repo, state, createdAt) ==
    [issue |-> [title |-> title, url |-> "https://github.com/acme/" \o repo \o "/issues/" \o title,
                state |-> state, repository |-> [name |-> repo],
                createdAt |-> createdAt]]

Commit(count, repo, occurredAt) ==
    [commitCount |-> count, occurredAt |-> occurredAt,
     url |-> "https://github.com/acme/" \o repo \o "/commits?since=" \o occurredAt]

RepoCommits(repo, nodes) ==
    [repository |-> [name |-> repo], contributions |-> [nodes |-> nodes]]

PR1 == PullRequest("p1", "api", "MERGED", "2024-01-10T09:00:00Z")
PR2 == PullRequest("p2", "web", "OPEN", "2024-01-05T23:59:59Z")
PR3 == PullRequest("p3", "api", "CLOSED", "2024-01-10T18:30:00Z")
PRBad == PullRequest("p4", "web", "OPEN", "2024-01-08T07:15:00+00:00")

IS1 == Issue("i1", "api", "OPEN", "2024-01-08T12:00:00Z")
IS2 == Issue("i2", "web", "CLOSED", "2024-01-10T00:00:00Z")
ISBad == Issue("i3", "web", "OPEN", "2024-01-05")
\* one-digit fields and a lower-case z, which strptime accepts
ISLoose == Issue("i4", "api", "OPEN", "2024-1-9T7:05:03z")
\* the shape of a timestamp, but no day of the calendar
ISImpossible == Issue("i5", "web", "CLOSED", "2024-02-30T10:00:00Z")

RC1 == RepoCommits("api", <<Commit(3, "api", "2024-01-10T08:00:00Z"),
                            Commit(1, "api", "2024-01-12T08:00:00Z")>>)
RC2 == RepoCommits("web", <<Commit(2, "web", "2024-01-08T08:00:00Z")>>)
RCBad == RepoCommits("docs", <<Commit(5, "docs", "2024-01-09T08:00:00")>>)

\* what one page of the paginated query can carry
PageBatches == {<<>>, <<PR1>>, <<PR2, PRBad>>}
PageIssues == {<<>>, <<IS1>>}
PageCommits == {<<>>, <<RC1>>}
ExpectedTotals == {7}

\* the cursor the server puts in the pageInfo of the page-th page of a chain: it
\* names the position the page ends at, so every page of a chain has its own
EndCursor(page) == "cursor:" \o ToString(page)

\* data["data"]["user"]["contributionsCollection"] of the page-th successful response
PageBodies(page) ==
    {[totalPullRequestContributions |-> t,
      pullRequestContributions |->
          [pageInfo |-> [hasNextPage |-> more, endCursor |-> EndCursor(page)],
           nodes |-> b],
      issueContributions |-> [nodes |-> i],
      commitContributionsByRepository |-> c] :
        t \in ExpectedTotals, more \in BOOLEAN, b \in PageBatches,
        i \in PageIssues, c \in PageCommits}

\* outcomes of the contributions request (lines 118-123)
TransportFailure == [kind |-> "http_error"]
ApiErrors == [kind |-> "errors"]
\* a body without an errors list; what it carries is recorded in pages
PageReceived == [kind |-> "page"]

\* outcomes of the organization lookup (lines 27-34): a transport failure, or a
\* body with or without a "data" key, an "organization" key and a non-null organization
OrgResponses ==
    {TransportFailure}
        \cup {[kind |-> "body", has_data |-> TRUE, has_organization |-> TRUE, organization |-> [id |-> OrgId]],
              [kind |-> "body", has_data |-> TRUE, has_organization |-> TRUE, organization |-> Null],
              [kind |-> "body", has_data |-> TRUE, has_organization |-> FALSE, organization |-> Null],
              [kind |-> "body", has_data |-> FALSE, has_organization |-> FALSE, organization |-> Null]}

----------------------------------------------------------------------------
(* process_contributions *)

Collection(prs, issues, commits) ==
    [pullRequestContributions |-> [nodes |-> prs],
     issueContributions |-> [nodes |-> issues],
     commitContributionsByRepository |-> commits]

\* every timestamp the three loops hand to strptime, in the order they do
RepoTimestamps(repo) == Map(LAMBDA c : c.occurredAt, repo.contributions.nodes)

Timestamps(collection) ==
    Map(LAMBDA pr : pr.pullRequest.createdAt, collection.pullRequestContributions.nodes)
        \o Map(LAMBDA is : is.issue.createdAt, collection.issueContributions.nodes)
        \o Flatten(Map(RepoTimestamps, collection.commitContributionsByRepository))

DateOf(ts) == strftime(strptime(ts))

PullRequestRecord(pr) ==
    [type |-> "Pull Request",
     title |-> pr.pullRequest.title,
     repository |-> pr.pullRequest.repository.name,
     status |-> pr.pullRequest.state,
     url |-> pr.pullRequest.url,
     date |-> DateOf(pr.pullRequest.createdAt)]

IssueRecord(is) ==
    [type |-> "Issue",
     title |-> is.issue.title,
     repository |-> is.issue.repository.name,
     status |-> is.issue.state,
     url |-> is.issue.url,
     date |-> DateOf(is.issue.createdAt)]

\* a slip: the title of a commit record leaves out the count
CommitRecordWithoutCount(repo, commit) ==
    [type |-> "Commit",
     title |-> "Commits to " \o repo.repository.name,
     repository |-> repo.repository.name,
     status |-> "Committed",
     url |-> commit.url,
     date |-> DateOf(commit.occurredAt)]

CommitRecord(repo, commit) ==
    [type |-> "Commit",
     title |-> ToString(commit.commitCount) \o " commits to " \o repo.repository.name,
     repository |-> repo.repository.name,
     status |-> "Committed",
     url |-> commit.url,
     date |-> DateOf(commit.occurredAt)]

\* a slip: one record per repository instead of one per occurrence
RepoRecordsOnePerRepo(repo) ==
    IF repo.contributions.nodes = <<>> THEN <<>>
    ELSE <<CommitRecord(repo, repo.contributions.nodes[1])>>

RepoRecords(repo) == Map(LAMBDA c : CommitRecord(repo, c), repo.contributions.nodes)

\* the list built by the three loops (lines 152-187), before it is sorted
Unsorted(collection) ==
    Map(PullRequestRecord, collection.pullRequestContributions.nodes)
        \o Map(IssueRecord, collection.issueContributions.nodes)
        \o Flatten(Map(RepoRecords, collection.commitContributionsByRepository))

\* a slip: an ascending stable sort, reversed (sorted(...)[::-1]) puts equal dates
\* in reverse order
RECURSIVE InsertDescendingTiesReversed(_, _)
InsertDescendingTiesReversed(sorted, x) ==
    IF sorted = <<>> THEN <<x>>
    ELSE IF ~StrLess(x.date, Head(sorted).date) THEN <<x>> \o sorted
    ELSE <<Head(sorted)>> \o InsertDescendingTiesReversed(Tail(sorted), x)

\* list.sort/sorted with reverse=True keeps equal keys in their original order:
\* x goes behind every record whose date is greater than or equal to its own
RECURSIVE InsertDescending(_, _)
InsertDescending(sorted, x) ==
    IF sorted = <<>> THEN <<x>>
    ELSE IF StrLess(Head(sorted).date, x.date) THEN <<x>> \o sorted
    ELSE <<Head(sorted)>> \o InsertDescending(Tail(sorted), x)

RECURSIVE SortedByDateReverse(_)
SortedByDateReverse(records) ==
    IF records = <<>> THEN <<>>
    ELSE InsertDescending(SortedByDateReverse(SubSeq(records, 1, Len(records) - 1)),
                          records[Len(records)])

\* the entries whose timestamps strptime accepts
Parsed(collection) ==
    Collection(
        SelectSeq(collection.pullRequestContributions.nodes,
                  LAMBDA pr : strptime(pr.pullRequest.createdAt).ok),
        SelectSeq(collection.issueContributions.nodes,
                  LAMBDA is : strptime(is.issue.createdAt).ok),
        [k \in 1..Len(collection.commitContributionsByRepository) |->
            LET repo == collection.commitContributionsByRepository[k]
            IN  RepoCommits(repo.repository.name,
                            SelectSeq(repo.contributions.nodes,
                                      LAMBDA c : strptime(c.occurredAt).ok))])

\* a slip: an entry whose timestamp does not parse is skipped (try/except: continue)
process_contributionsSkipsBad(collection) ==
    [ok |-> TRUE, value |-> SortedByDateReverse(Unsorted(Parsed(collection)))]

\* process_contributions(data): the sorted records, or the ValueError strptime raises
process_contributions(collection) ==
    IF \E k \in 1..Len(Timestamps(collection)) : ~strptime(Timestamps(collection)[k]).ok
    THEN [ok |-> FALSE, error |-> "ValueError: time data does not match format"]
    ELSE [ok |-> TRUE, value |-> SortedByDateReverse(Unsorted(collection))]

----------------------------------------------------------------------------
(* export_to_markdown *)

OfType(records, type) == SelectSeq(records, LAMBDA c : c["type"] = type)

LinkLine(c) == "- [" \o c.title \o "](" \o c.url \o ") - " \o c.status \o " (" \o c.date \o ")"

CommitLine(c) == "- [" \o c.title \o "](" \o c.url \o ") - " \o c.date

\* a slip: a section is written oldest first
SectionReversed(heading, lines) ==
    IF lines = <<>> THEN <<>>
    ELSE <<heading, "">> \o [k \in 1..Len(lines) |-> lines[Len(lines) + 1 - k]] \o <<"">>

Section(heading, lines) ==
    IF lines = <<>> THEN <<>> ELSE <<heading, "">> \o lines \o <<"">>

\* the lines export_to_markdown writes, in order (lines 193-230)
export_to_markdown(records, username, organization) ==
    LET prs == OfType(records, "Pull Request")
        issues == OfType(records, "Issue")
        commits == OfType(records, "Commit")
    IN  <<"# GitHub Contributions for " \o username \o " in " \o organization, "",
          "## Summary",
          "- Total Pull Requests: " \o ToString(Len(prs)),
          "- Total Issues: " \o ToString(Len(issues)),
          "- Total Commits: " \o ToString(Len(commits)), "",
          "## Detailed Contributions", "">>
            \o Section("### Pull Requests", Map(LinkLine, prs))
            \o Section("### Issues", Map(LinkLine, issues))
            \o Section("### Commits", Map(CommitLine, commits))

----------------------------------------------------------------------------
(* The run of main() *)

PcValues == {"start", "org_request", "loop", "page_request", "fetched",
             "processed", "done", "failed"}

NoCalls == [get_organization_id |-> 0, fetch_contributions |-> 0,
            process_contributions |-> 0, export_to_markdown |-> 0]

Called(f) == [calls EXCEPT ![f] = @ + 1]

OrganizationRequest ==
    [query |-> "organization", variables |-> [organization |-> Organization]]

ContributionsRequest(cursor) ==
    [query |-> "contributions",
     variables |-> [username |-> Username, organizationID |-> organization_id,
                    prCursor |-> cursor]]

Init ==
    /\ pc = "start"
    /\ organization_id = None
    /\ all_contributions = Unbound
    /\ pr_cursor = None
    /\ has_more_prs = FALSE
    /\ total_prs_fetched = 0
    /\ contributions = NoRecords
    /\ file = Previous
    /\ stdout = <<>>
    /\ error = NoError
    /\ requests = <<>>
    /\ responses = <<>>
    /\ pages = <<>>
    /\ calls = NoCalls

\* an exception leaves fetch_contributions or process_contributions: main's except
\* clause prints it and re-raises (lines 246-248)
Raise(e) ==
    /\ pc' = "failed"
    /\ error' = e
    /\ stdout' = Append(stdout, "Error: " \o e)

\* line 31: the condition under which the lookup returns an id
OrganizationFound(body) ==
    body.has_data /\ body.has_organization /\ body.organization # Null

\* a slip: no organization yields no id instead of an exception
get_organization_idReturnsNone(r) ==
    IF r.kind = "http_error" THEN [ok |-> FALSE, error |-> "HTTPError"]
    ELSE IF OrganizationFound(r) THEN [ok |-> TRUE, id |-> r.organization.id]
    ELSE [ok |-> TRUE, id |-> None]

\* get_organization_id, given the outcome r of its request (lines 28-34): the id
\* it returns or the exception it raises
get_organization_id(r) ==
    IF r.kind = "http_error" THEN [ok |-> FALSE, error |-> "HTTPError"]
    ELSE IF OrganizationFound(r) THEN [ok |-> TRUE, id |-> r.organization.id]
    ELSE [ok |-> FALSE,
          error |-> "ValueError: Organization '" \o Organization \o "' not found."]

\* a slip: the accumulated list is replaced by the batch
ExtendReplaces(nodes, current_batch) == current_batch

\* a slip: the batch is put in front of the accumulated list
ExtendPrepends(nodes, current_batch) == current_batch \o nodes

\* line 134: nodes.extend(current_batch)
Extend(nodes, current_batch) == nodes \o current_batch

\* a slip: every page's list replaces the stored one
StoreOnceOverwrites(stored, current) == current

\* lines 142-146: "store other contribution data only once"
StoreOnce(stored, current) == IF stored = <<>> THEN current ELSE stored

\* a slip: the loop never sees the last page
HasMoreAlways(pageInfo) == TRUE

\* line 138
HasMore(pageInfo) == pageInfo.hasNextPage

\* a slip: the cursor is never advanced
NextCursorNever(pageInfo) == None

\* line 139
NextCursor(pageInfo) == IF HasMore(pageInfo) THEN pageInfo.endCursor ELSE None

\* lines 128-129
ExpectedTotalLine(fetched, current_data) ==
    IF fetched = 0
    THEN <<"Expected total PRs: " \o ToString(current_data.totalPullRequestContributions)>>
    ELSE <<>>

\* main() calls fetch_contributions, which calls get_organization_id, which posts
\* the lookup (lines 241-242, 37, 27)
Start ==
    /\ pc = "start"
    /\ pc' = "org_request"
    /\ stdout' = Append(stdout, "Fetching contributions for " \o Username \o " in "
                                   \o Organization \o "...")
    /\ calls' = [calls EXCEPT !.fetch_contributions = @ + 1,
                              !.get_organization_id = @ + 1]
    /\ requests' = Append(requests, OrganizationRequest)
    /\ UNCHANGED <<organization_id, all_contributions, pr_cursor, has_more_prs,
                   total_prs_fetched, contributions, file, error, responses, pages>>

\* the lookup's response arrives (lines 28-34); on success fetch_contributions
\* sets up its accumulator and loop variables (lines 38-48, 107-109)
OrganizationResponse ==
    /\ pc = "org_request"
    /\ \E r \in OrgResponses :
          /\ responses' = Append(responses, r)
          /\ LET result == get_organization_id(r)
             IN  IF result.ok
                 THEN /\ organization_id' = result.id
                      /\ all_contributions' = Collection(<<>>, <<>>, <<>>)
                      /\ pr_cursor' = None
                      /\ has_more_prs' = TRUE
                      /\ total_prs_fetched' = 0
                      /\ pc' = "loop"
                      /\ UNCHANGED <<error, stdout>>
                 ELSE /\ Raise(result.error)
                      /\ UNCHANGED <<organization_id, all_contributions, pr_cursor,
                                     has_more_prs, total_prs_fetched>>
    /\ UNCHANGED <<contributions, file, requests, pages, calls>>

\* a slip: the organization is looked up again in every iteration
PageRequestResolvesAgain ==
    /\ pc = "loop"
    /\ has_more_prs
    /\ calls' = Called("get_organization_id")
    /\ requests' = requests \o <<OrganizationRequest, ContributionsRequest(pr_cursor)>>
    /\ pc' = "page_request"
    /\ UNCHANGED <<organization_id, all_contributions, pr_cursor, has_more_prs,
                   total_prs_fetched, contributions, file, stdout, error, responses,
                   pages>>

\* a slip: the loop gives up after two pages
PageRequestCapped ==
    /\ pc = "loop"
    /\ has_more_prs
    /\ IF Len(pages) >= 2
       THEN /\ Raise("RuntimeError: page limit exceeded")
            /\ UNCHANGED requests
       ELSE /\ requests' = Append(requests, ContributionsRequest(pr_cursor))
            /\ pc' = "page_request"
            /\ UNCHANGED <<error, stdout>>
    /\ UNCHANGED <<organization_id, all_contributions, pr_cursor, has_more_prs,
                   total_prs_fetched, contributions, file, responses, pages, calls>>

\* the while test holds: one paginated request is posted (lines 111-118)
PageRequest ==
    /\ pc = "loop"
    /\ has_more_prs
    /\ requests' = Append(requests, ContributionsRequest(pr_cursor))
    /\ pc' = "page_request"
    /\ UNCHANGED <<organization_id, all_contributions, pr_cursor, has_more_prs,
                   total_prs_fetched, contributions, file, stdout, error, responses,
                   pages, calls>>

\* the body of the loop after a successful response (lines 125-146)
ProcessPage(current_data) ==
    LET pr_data == current_data.pullRequestContributions
        current_batch == pr_data.nodes
        fetched == total_prs_fetched + Len(current_batch)
    IN  /\ all_contributions' =
              Collection(
                  Extend(all_contributions.pullRequestContributions.nodes, current_batch),
                  StoreOnce(all_contributions.issueContributions.nodes,
                            current_data.issueContributions.nodes),
                  StoreOnce(all_contributions.commitContributionsByRepository,
                            current_data.commitContributionsByRepository))
        /\ total_prs_fetched' = fetched
        /\ stdout' = stdout \o ExpectedTotalLine(total_prs_fetched, current_data)
                            \o <<"Fetched " \o ToString(fetched) \o " PRs so far...">>
        /\ has_more_prs' = HasMore(pr_data.pageInfo)
        /\ pr_cursor' = NextCursor(pr_data.pageInfo)
        /\ pages' = Append(pages, current_data)
        /\ pc' = "loop"
        /\ UNCHANGED error

\* a slip: a failed request is tried again
PageResponseRetries ==
    /\ pc = "page_request"
    /\ Len(pages) < MaxPages
    /\ \/ /\ responses' = Append(responses, TransportFailure)
          /\ pc' = "loop"
          /\ UNCHANGED <<all_contributions, pr_cursor, has_more_prs,
                         total_prs_fetched, pages, error, stdout>>
       \/ /\ responses' = Append(responses, ApiErrors)
          /\ Raise("ValueError: GitHub API Error")
          /\ UNCHANGED <<all_contributions, pr_cursor, has_more_prs,
                         total_prs_fetched, pages>>
       \/ \E current_data \in PageBodies(Len(pages) + 1) :
             /\ current_data.pullRequestContributions.pageInfo.hasNextPage
                    => Len(pages) + 1 < MaxPages
             /\ responses' = Append(responses, PageReceived)
             /\ ProcessPage(current_data)
    /\ UNCHANGED <<organization_id, contributions, file, requests, calls>>

\* the paginated request returns (lines 119-146). The modelled server serves a
\* chain of at most MaxPages pages: its MaxPages-th page reports no next page.
PageResponse ==
    /\ pc = "page_request"
    /\ Len(pages) < MaxPages
    /\ \/ /\ responses' = Append(responses, TransportFailure)
          /\ Raise("HTTPError")
          /\ UNCHANGED <<all_contributions, pr_cursor, has_more_prs,
                         total_prs_fetched, pages>>
       \/ /\ responses' = Append(responses, ApiErrors)
          /\ Raise("ValueError: GitHub API Error")
          /\ UNCHANGED <<all_contributions, pr_cursor, has_more_prs,
                         total_prs_fetched, pages>>
       \/ \E current_data \in PageBodies(Len(pages) + 1) :
             /\ current_data.pullRequestContributions.pageInfo.hasNextPage
                    => Len(pages) + 1 < MaxPages
             /\ responses' = Append(responses, PageReceived)
             /\ ProcessPage(current_data)
    /\ UNCHANGED <<organization_id, contributions, file, requests, calls>>

\* the while test fails: fetch_contributions returns (lines 148-149)
Return ==
    /\ pc = "loop"
    /\ ~has_more_prs
    /\ stdout' = Append(stdout, "Total PRs fetched: " \o ToString(total_prs_fetched))
    /\ pc' = "fetched"
    /\ UNCHANGED <<organization_id, all_contributions, pr_cursor, has_more_prs,
                   total_prs_fetched, contributions, file, error, requests, responses,
                   pages, calls>>

\* a slip: a timestamp that does not parse leaves a report of no records behind
ProcessPartialOutput ==
    /\ pc = "fetched"
    /\ calls' = Called("process_contributions")
    /\ LET result == process_contributions(all_contributions)
       IN  IF result.ok
           THEN /\ contributions' = result.value
                /\ pc' = "processed"
                /\ UNCHANGED <<error, stdout, file>>
           ELSE /\ Raise(result.error)
                /\ file' = export_to_markdown(<<>>, Username, Organization)
                /\ UNCHANGED contributions
    /\ UNCHANGED <<organization_id, all_contributions, pr_cursor, has_more_prs,
                   total_prs_fetched, requests, responses, pages>>

\* line 243
Process ==
    /\ pc = "fetched"
    /\ calls' = Called("process_contributions")
    /\ LET result == process_contributions(all_contributions)
       IN  IF result.ok
           THEN /\ contributions' = result.value
                /\ pc' = "processed"
                /\ UNCHANGED <<error, stdout>>
           ELSE /\ Raise(result.error)
                /\ UNCHANGED contributions
    /\ UNCHANGED <<organization_id, all_contributions, pr_cursor, has_more_prs,
                   total_prs_fetched, file, requests, responses, pages>>

\* lines 244-245: open(filename, "w") truncates the file and the report is written
Export ==
    /\ pc = "processed"
    /\ calls' = Called("export_to_markdown")
    /\ file' = export_to_markdown(contributions, Username, Organization)
    /\ stdout' = Append(stdout, "Successfully exported contributions to contributions.md")
    /\ pc' = "done"
    /\ UNCHANGED <<organization_id, all_contributions, pr_cursor, has_more_prs,
                   total_prs_fetched, contributions, error, requests, responses, pages>>

Next ==
    \/ Start
    \/ OrganizationResponse
    \/ PageRequest
    \/ PageResponse
    \/ Return
    \/ Process
    \/ Export

Spec == Init /\ [][Next]_vars

TypeOK == pc \in PcValues

\* main() is sequential and every request it posts is answered: each step of
\* fetch_contributions that can be taken is taken
SpecFair ==
    /\ Spec
    /\ WF_vars(Start)
    /\ WF_vars(OrganizationResponse)
    /\ WF_vars(PageRequest)
    /\ WF_vars(PageResponse)
    /\ WF_vars(Return)

----------------------------------------------------------------------------
(* The normalizer and the renderer on their own: the run is taken up where *)
(* fetch_contributions has returned an Aggregate fetched as one page.      *)

NormPullRequests == {PR1, PR2, PR3, PRBad}
NormIssues == {IS1, IS2, ISBad, ISLoose, ISImpossible}
NormRepos == {RC1, RC2, RCBad}

SinglePage(prs, issues, commits) ==
    [totalPullRequestContributions |-> Len(prs),
     pullRequestContributions |->
         [pageInfo |-> [hasNextPage |-> FALSE, endCursor |-> EndCursor(1)],
          nodes |-> prs],
     issueContributions |-> [nodes |-> issues],
     commitContributionsByRepository |-> commits]

InitNorm ==
    \E prs \in BSeq(NormPullRequests, MaxEntries) :
    \E issues \in BSeq(NormIssues, MaxEntries - Len(prs)) :
    \E commits \in BSeq(NormRepos, MaxEntries - Len(prs) - Len(issues)) :
        /\ pc = "fetched"
        /\ organization_id = OrgId
        /\ all_contributions = Collection(prs, issues, commits)
        /\ pr_cursor = None
        /\ has_more_prs = FALSE
        /\ total_prs_fetched = Len(prs)
        /\ contributions = NoRecords
        /\ file = Previous
        /\ stdout = <<"Fetching contributions for " \o Username \o " in "
                          \o Organization \o "...",
                      "Expected total PRs: " \o ToString(Len(prs)),
                      "Fetched " \o ToString(Len(prs)) \o " PRs so far...",
                      "Total PRs fetched: " \o ToString(Len(prs))>>
        /\ error = NoError
        /\ requests = <<OrganizationRequest,
                        [query |-> "contributions",
                         variables |-> [username |-> Username, organizationID |-> OrgId,
                                        prCursor |-> None]]>>
        /\ responses = <<[kind |-> "body", has_data |-> TRUE, has_organization |-> TRUE,
                          organization |-> [id |-> OrgId]], PageReceived>>
        /\ pages = <<SinglePage(prs, issues, commits)>>
        /\ calls = [NoCalls EXCEPT !.fetch_contributions = 1, !.get_organization_id = 1]

NextNorm ==
    \/ Process
    \/ Export

SpecNorm == InitNorm /\ [][NextNorm]_vars

----------------------------------------------------------------------------
(* Properties *)

\* fetch_contributions has returned its Aggregate to main()
Returned ==
    \/ pc \in {"fetched", "processed", "done"}
    \/ pc = "failed" /\ calls.process_contributions > 0

\* process_contributions has returned its records to main()
Normalized == pc \in {"processed", "done"}

PullRequestNodes == all_contributions.pullRequestContributions.nodes
IssueNodes == all_contributions.issueContributions.nodes
CommitRepos == all_contributions.commitContributionsByRepository

BatchOf(page) == page.pullRequestContributions.nodes

\* a calendar date "YYYY-MM-DD" as the number YYYYMMDD
DayNumber(date) == 10000 * NumAt(date, 1, 4) + 100 * NumAt(date, 6, 2) + NumAt(date, 9, 2)

OnDay(records, date) == SelectSeq(records, LAMBDA r : r.date = date)

PageRequests == SelectSeq(requests, LAMBDA r : r.query = "contributions")

PageInfoOf(page) == page.pullRequestContributions.pageInfo

Failure(r) == r.kind \in {"http_error", "errors"}

\* the lookup's body has no organization: the field is null or not there
NoOrganization(r) ==
    r.kind = "body" /\ (~r.has_data \/ ~r.has_organization \/ r.organization = Null)

NotFoundError == "ValueError: Organization 'acme' not found."

\* one paginated request per page, the last page being the first without a next page
OneRequestPerPage ==
    /\ Len(PageRequests) = Len(pages)
    /\ Len(pages) >= 1
    /\ ~PageInfoOf(pages[Len(pages)]).hasNextPage
    /\ \A k \in 1..(Len(pages) - 1) : PageInfoOf(pages[k]).hasNextPage

\* C1: the pull-request list of the returned Aggregate is the concatenation of the
\* batches of the pages in the order received, so its length is the sum of the
\* batch sizes.
C1_PullRequestsConcatenated ==
    Returned =>
        /\ PullRequestNodes = Flatten(Map(BatchOf, pages))
        /\ Len(PullRequestNodes) = SumSeq(Map(LAMBDA page : Len(BatchOf(page)), pages))

\* three pages, the first with an empty batch, have been accumulated and returned
C1_Witness ==
    /\ pc = "fetched"
    /\ Len(pages) = 3
    /\ BatchOf(pages[1]) = <<>>
    /\ BatchOf(pages[2]) = <<PR2, PRBad>>
    /\ BatchOf(pages[3]) = <<PR1>>
    /\ PullRequestNodes = <<PR2, PRBad, PR1>>

\* C2: the issue list and the commit-by-repository list of the returned Aggregate
\* are those of the first page, whatever the pages carry.
C2_FirstPageOnly ==
    Returned =>
        /\ IssueNodes = pages[1].issueContributions.nodes
        /\ CommitRepos = pages[1].commitContributionsByRepository

\* C3: the first paginated request carries a null cursor, every later one follows
\* a page that reported a next page and carries exactly that page's endCursor, and
\* all of them carry the same username and the resolved organization id.
C3_CursorEchoed ==
    /\ Len(PageRequests) <= Len(pages) + 1
    /\ \A n \in 1..Len(PageRequests) :
          /\ PageRequests[n].variables.username = Username
          /\ PageRequests[n].variables.organizationID = responses[1].organization.id
          /\ n = 1 => PageRequests[n].variables.prCursor = None
          /\ n > 1 =>
                /\ PageInfoOf(pages[n - 1]).hasNextPage
                /\ PageRequests[n].variables.prCursor = PageInfoOf(pages[n - 1]).endCursor
    /\ \A k \in 1..Len(pages) :
          (PageInfoOf(pages[k]).hasNextPage /\ pc = "page_request" /\ k = Len(pages))
              => requests[Len(requests)].variables.prCursor = PageInfoOf(pages[k]).endCursor

\* the third request of a chain is in flight
C3_Witness ==
    /\ pc = "page_request"
    /\ Len(PageRequests) = 3
    /\ PageRequests[3].variables.prCursor = EndCursor(2)
    /\ PageRequests[2].variables.prCursor = EndCursor(1)

\* C4: a lookup whose body has a null or absent organization ends the run with
\* the not-found error: no paginated request, no normalizer, no renderer.
C4_NotFoundStops ==
    (Len(responses) >= 1 /\ NoOrganization(responses[1])) =>
        /\ pc = "failed"
        /\ error = NotFoundError
        /\ requests = <<OrganizationRequest>>
        /\ pages = <<>>
        /\ calls.process_contributions = 0
        /\ calls.export_to_markdown = 0
        /\ contributions = NoRecords
        /\ file = Previous

\* the lookup has answered with "organization": null
C4_Witness ==
    /\ Len(responses) = 1
    /\ responses[1].kind = "body"
    /\ responses[1].has_organization
    /\ responses[1].organization = Null
    /\ pc = "failed"

\* C5: the report file holds either what was there before the run or the complete
\* report of the normalized Aggregate, written after the loop has ended and the
\* normalizer has succeeded; a run that ends with an error leaves the file alone.
C5_NoPartialOutput ==
    /\ file # Previous =>
          /\ pc = "done"
          /\ error = NoError
          /\ ~has_more_prs
          /\ OneRequestPerPage
          /\ calls.process_contributions = 1
          /\ process_contributions(all_contributions).ok
          /\ file = export_to_markdown(process_contributions(all_contributions).value,
                                       Username, Organization)
    /\ error # NoError => file = Previous
    /\ pc = "failed" <=> error # NoError

\* a run whose last page carries a timestamp that does not parse has ended
C5_Witness ==
    /\ pc = "failed"
    /\ calls.process_contributions = 1
    /\ Len(pages) = 2
    /\ BatchOf(pages[1]) = <<PR1>>
    /\ BatchOf(pages[2]) = <<PR2, PRBad>>
    /\ file = Previous

\* C6: the fetch loop ends (by returning, or by the exception of a failed
\* request), and when it returns it has issued one paginated request per page and
\* stopped at the first page without a next page.
C6_LoopTerminates ==
    /\ <>(pc = "fetched" \/ error # NoError)
    /\ [](Returned => OneRequestPerPage)

\* a chain of three pages has been fetched with three requests
C6_Witness ==
    /\ pc = "fetched"
    /\ Len(pages) = 3
    /\ Len(PageRequests) = 3

\* C7: a request that fails is the last request of the run; the run has failed with
\* that request's error, no Aggregate was returned and nothing ran after it.
C7_NoRetry ==
    \A k \in 1..Len(responses) :
        Failure(responses[k]) =>
            /\ k = Len(requests)
            /\ pc = "failed"
            /\ error = (IF responses[k].kind = "http_error" THEN "HTTPError"
                        ELSE "ValueError: GitHub API Error")
            /\ stdout[Len(stdout)] = "Error: " \o error
            /\ ~Returned
            /\ calls.process_contributions = 0
            /\ calls.export_to_markdown = 0
            /\ contributions = NoRecords

\* the request for the second page has failed
C7_Witness ==
    /\ Len(responses) = 3
    /\ responses[3] = TransportFailure
    /\ Len(pages) = 1
    /\ pc = "failed"

\* C8: the resolver is entered once and posts one request, answered before the
\* first paginated request; the normalizer runs at most once, over the Aggregate
\* the loop ended with; the renderer runs at most once, over the normalizer's result.
C8_OnceEach ==
    /\ calls.get_organization_id = (IF pc = "start" THEN 0 ELSE 1)
    /\ Len(SelectSeq(requests, LAMBDA r : r.query = "organization"))
           = calls.get_organization_id
    /\ requests # <<>> => requests[1] = OrganizationRequest
    /\ Len(requests) <= Len(responses) + 1
    /\ Len(PageRequests) >= 1 => (Len(responses) >= 1 /\ ~NoOrganization(responses[1])
                                     /\ ~Failure(responses[1]))
    /\ calls.process_contributions <= 1
    /\ calls.export_to_markdown <= 1
    /\ calls.process_contributions = 1 => (Returned /\ ~has_more_prs /\ OneRequestPerPage)
    /\ Normalized => contributions = process_contributions(all_contributions).value
    /\ calls.export_to_markdown = 1 =>
          /\ pc = "done"
          /\ calls.process_contributions = 1
          /\ file = export_to_markdown(contributions, Username, Organization)

\* a run over two pages has written its report
C8_Witness ==
    /\ pc = "done"
    /\ Len(pages) = 2
    /\ calls = [get_organization_id |-> 1, fetch_contributions |-> 1,
                process_contributions |-> 1, export_to_markdown |-> 1]

\* C9: process_contributions returns exactly p + i + c records for an Aggregate
\* with p pull requests, i issues and commit batches of c occurrences in all, and
\* each source entry has its records in the result as often as in the Aggregate.
C9_RecordCount ==
    Normalized =>
        /\ Len(contributions) =
               Len(PullRequestNodes) + Len(IssueNodes)
                   + SumSeq(Map(LAMBDA repo : Len(repo.contributions.nodes), CommitRepos))
        /\ Len(OfType(contributions, "Pull Request")) = Len(PullRequestNodes)
        /\ Len(OfType(contributions, "Issue")) = Len(IssueNodes)
        /\ \A k \in 1..Len(PullRequestNodes) :
              Cardinality({j \in 1..Len(contributions) :
                              /\ contributions[j]["type"] = "Pull Request"
                              /\ contributions[j].url = PullRequestNodes[k].pullRequest.url})
                  = Cardinality({j \in 1..Len(PullRequestNodes) :
                                    PullRequestNodes[j] = PullRequestNodes[k]})
        /\ \A k \in 1..Len(IssueNodes) :
              Cardinality({j \in 1..Len(contributions) :
                              /\ contributions[j]["type"] = "Issue"
                              /\ contributions[j].url = IssueNodes[k].issue.url})
                  = Cardinality({j \in 1..Len(IssueNodes) : IssueNodes[j] = IssueNodes[k]})

\* an Aggregate of a pull request, an issue and two repositories, one of them with
\* two occurrences (of 3 and 1 commits), has been normalized to five records
C9_Witness ==
    /\ Normalized
    /\ Len(PullRequestNodes) = 1
    /\ Len(IssueNodes) = 1
    /\ CommitRepos = <<RC1, RC2>>
    /\ Len(contributions) = 5

\* C10: the result of process_contributions is in descending order of date, and
\* the records of one date are in the order of the list before the sort (pull
\* requests, then issues, then commit occurrences by repository).
C10_SortedStable ==
    Normalized =>
        /\ \A i, j \in 1..Len(contributions) :
              i < j => DayNumber(contributions[i].date) >= DayNumber(contributions[j].date)
        /\ \A k \in 1..Len(contributions) :
              OnDay(contributions, contributions[k].date)
                  = OnDay(Unsorted(all_contributions), contributions[k].date)
        /\ (PullRequestNodes = <<PR1, PR2>> /\ IssueNodes = <<IS1>> /\ CommitRepos = <<>>)
              => contributions
                    = <<PullRequestRecord(PR1), IssueRecord(IS1), PullRequestRecord(PR2)>>

\* records of one day from all three kinds, out of date order in the Aggregate,
\* have been sorted
C10_Witness ==
    /\ Normalized
    /\ PullRequestNodes = <<PR2, PR3>>
    /\ IssueNodes = <<IS2>>
    /\ CommitRepos = <<RC1>>
    /\ OnDay(contributions, "2024-01-10")
           = <<PullRequestRecord(PR3), IssueRecord(IS2),
               CommitRecord(RC1, RC1.contributions.nodes[1])>>
    /\ contributions[1] = CommitRecord(RC1, RC1.contributions.nodes[2])
    /\ contributions[5] = PullRequestRecord(PR2)

\* the lines of a sequence up to its first empty line
RECURSIVE UpToBlank(_)
UpToBlank(lines) ==
    IF lines = <<>> \/ Head(lines) = "" THEN <<>>
    ELSE <<Head(lines)>> \o UpToBlank(Tail(lines))

HeadingLines(lines, heading) == {k \in 1..Len(lines) : lines[k] = heading}

\* the entries the written report lists under a heading: the lines between the
\* empty line after the heading and the next empty line
SectionLines(lines, heading) ==
    IF HeadingLines(lines, heading) = {} THEN <<>>
    ELSE LET h == CHOOSE k \in HeadingLines(lines, heading) : TRUE
         IN  UpToBlank(SubSeq(lines, h + 2, Len(lines)))

RecordsOfKind(kind) == SelectSeq(contributions, LAMBDA r : r["type"] = kind)

\* C11: each section of the written report lists exactly the records of its kind,
\* once each and in the order of the normalized sequence, and every record of the
\* sequence is in one section.
C11_SectionsKeepOrder ==
    pc = "done" =>
        /\ \A heading \in {"### Pull Requests", "### Issues", "### Commits"} :
              Cardinality(HeadingLines(file, heading)) <= 1
        /\ SectionLines(file, "### Pull Requests")
               = [k \in 1..Len(RecordsOfKind("Pull Request")) |->
                     LinkLine(RecordsOfKind("Pull Request")[k])]
        /\ SectionLines(file, "### Issues")
               = [k \in 1..Len(RecordsOfKind("Issue")) |-> LinkLine(RecordsOfKind("Issue")[k])]
        /\ SectionLines(file, "### Commits")
               = [k \in 1..Len(RecordsOfKind("Commit")) |-> CommitLine(RecordsOfKind("Commit")[k])]
        /\ Len(SectionLines(file, "### Pull Requests")) + Len(SectionLines(file, "### Issues"))
               + Len(SectionLines(file, "### Commits")) = Len(contributions)

\* a report of two pull requests, an issue and two commit occurrences, the pull
\* requests sorted into another order than the Aggregate's, has been written
C11_Witness ==
    /\ pc = "done"
    /\ PullRequestNodes = <<PR2, PR1>>
    /\ IssueNodes = <<IS1>>
    /\ CommitRepos = <<RC1>>
    /\ SectionLines(file, "### Pull Requests")
           = <<LinkLine(PullRequestRecord(PR1)), LinkLine(PullRequestRecord(PR2))>>
    /\ Len(SectionLines(file, "### Commits")) = 2

\* C12 (process_contributions is a pure function) compares two calls on the same
\* Aggregate; the run makes one call, and the operator process_contributions has
\* one value for each argument by construction, so no formula over the run can
\* separate a pure normalizer from an impure one.

ExpectedTotalLines ==
    {k \in 1..Len(stdout) :
        /\ Len(stdout[k]) >= 20
        /\ SubSeq(stdout[k], 1, 20) = "Expected total PRs: "}

ProgressLines ==
    {k \in 1..Len(stdout) :
        /\ Len(stdout[k]) >= 8
        /\ SubSeq(stdout[k], 1, 8) = "Fetched "}

\* C13: the expected total is reported exactly once in a fetch that has received a
\* page, before the first progress line, and never on a second or later page,
\* whatever the batch sizes are.
C13_ExpectedTotalOnce ==
    /\ Cardinality(ExpectedTotalLines) = (IF Len(pages) >= 1 THEN 1 ELSE 0)
    /\ \A k \in ExpectedTotalLines : \A j \in ProgressLines : k < j

\* A server whose every page reports a next page. The client's loop is the same
\* (lines 111-146); the exploration stops after MaxPages pages with the client
\* waiting for the answer to its next request.
EndlessPageBodies(page) ==
    {body \in PageBodies(page) : body.pullRequestContributions.pageInfo.hasNextPage}

EndlessPageResponse ==
    /\ pc = "page_request"
    /\ Len(pages) < MaxPages
    /\ \E current_data \in EndlessPageBodies(Len(pages) + 1) :
          /\ responses' = Append(responses, PageReceived)
          /\ ProcessPage(current_data)
    /\ UNCHANGED <<organization_id, contributions, file, requests, calls>>

NextEndless == Start \/ OrganizationResponse \/ PageRequest \/ EndlessPageResponse

SpecEndless == Init /\ [][NextEndless]_vars

\* C14: against a server that reports a next page on every page the fetch never
\* returns an Aggregate: after every page the loop asks for the next one, one more
\* request than pages received, and the only errors are those of the organization
\* lookup, never one for a limit on the number of pages.
C14_NoIterationCap ==
    /\ ~Returned
    /\ pc # "done"
    /\ pc = "loop" => has_more_prs /\ Len(PageRequests) = Len(pages)
    /\ pc = "page_request" => Len(PageRequests) = Len(pages) + 1
    /\ error \in {NoError, "HTTPError", NotFoundError}
    /\ pc = "failed" => pages = <<>> /\ PageRequests = <<>>

\* the loop has received MaxPages pages and has posted the request after them
C14_Witness ==
    /\ pc = "page_request"
    /\ Len(pages) = MaxPages
    /\ Len(PageRequests) = MaxPages + 1
    /\ \A k \in 1..Len(pages) : PageInfoOf(pages[k]).hasNextPage

\* the exact shape YYYY-MM-DDTHH:MM:SSZ
ExactShape(ts) ==
    /\ Len(ts) = 20
    /\ \A k \in {1, 2, 3, 4, 6, 7, 9, 10, 12, 13, 15, 16, 18, 19} : IsDigit(CharAt(ts, k))
    /\ CharAt(ts, 5) = "-" /\ CharAt(ts, 8) = "-"
    /\ CharAt(ts, 11) = "T"
    /\ CharAt(ts, 14) = ":" /\ CharAt(ts, 17) = ":"
    /\ CharAt(ts, 20) = "Z"

\* a timestamp of the exact shape names a moment of the calendar
RealMoment(ts) ==
    /\ NumAt(ts, 1, 4) >= 1
    /\ NumAt(ts, 6, 2) \in 1..12
    /\ NumAt(ts, 9, 2) \in 1..DaysInMonth(NumAt(ts, 1, 4), NumAt(ts, 6, 2))
    /\ NumAt(ts, 12, 2) \in 0..23
    /\ NumAt(ts, 15, 2) \in 0..59
    /\ NumAt(ts, 18, 2) \in 0..61

AggregateTimestamps ==
    {Timestamps(all_contributions)[k] : k \in 1..Len(Timestamps(all_contributions))}

ProcessCalled == calls.process_contributions > 0

IsDayOf(date, ts) ==
    /\ Len(date) = 10
    /\ CharAt(date, 5) = "-" /\ CharAt(date, 8) = "-"
    /\ ExactShape(ts) => date = SubSeq(ts, 1, 10)
    /\ DayNumber(date) = 10000 * strptime(ts).year + 100 * strptime(ts).month + strptime(ts).day

\* the record r is made of a pull request or issue node n of the given kind
IsRecordOf(r, kind, n) ==
    /\ r["type"] = kind
    /\ r.title = n.title
    /\ r.repository = n.repository.name
    /\ r.status = n.state
    /\ r.url = n.url
    /\ IsDayOf(r.date, n.createdAt)

\* the record r is made of the occurrence c of the batch repo
IsCommitRecordOf(r, repo, c) ==
    /\ r["type"] = "Commit"
    /\ r.title = ToString(c.commitCount) \o " commits to " \o repo.repository.name
    /\ r.repository = repo.repository.name
    /\ r.status = "Committed"
    /\ r.url = c.url
    /\ IsDayOf(r.date, c.occurredAt)

Occurrences ==
    {<<k, j>> \in (1..Len(CommitRepos)) \X (1..MaxEntries) :
        j <= Len(CommitRepos[k].contributions.nodes)}

\* C16: every pull request, issue and commit occurrence of the Aggregate has its
\* record, of the right kind, with the node's title, repository, url and state (a
\* commit's title made of count and repository, its status "Committed") and the
\* day of its timestamp as date; and every record is the record of such a source.
C16_RecordFields ==
    Normalized =>
        /\ Len(RecordsOfKind("Pull Request")) = Len(PullRequestNodes)
        /\ Len(RecordsOfKind("Issue")) = Len(IssueNodes)
        /\ Len(RecordsOfKind("Commit")) = Cardinality(Occurrences)
        /\ \A k \in 1..Len(PullRequestNodes) : \E j \in 1..Len(contributions) :
              IsRecordOf(contributions[j], "Pull Request", PullRequestNodes[k].pullRequest)
        /\ \A k \in 1..Len(IssueNodes) : \E j \in 1..Len(contributions) :
              IsRecordOf(contributions[j], "Issue", IssueNodes[k].issue)
        /\ \A o \in Occurrences : \E j \in 1..Len(contributions) :
              IsCommitRecordOf(contributions[j], CommitRepos[o[1]],
                               CommitRepos[o[1]].contributions.nodes[o[2]])
        /\ \A j \in 1..Len(contributions) :
              \/ \E k \in 1..Len(PullRequestNodes) :
                    IsRecordOf(contributions[j], "Pull Request", PullRequestNodes[k].pullRequest)
              \/ \E k \in 1..Len(IssueNodes) :
                    IsRecordOf(contributions[j], "Issue", IssueNodes[k].issue)
              \/ \E o \in Occurrences :
                    IsCommitRecordOf(contributions[j], CommitRepos[o[1]],
                                     CommitRepos[o[1]].contributions.nodes[o[2]])

\* a merged pull request, a loosely dated issue and a repository of two commit
\* occurrences have been normalized
C16_Witness ==
    /\ Normalized
    /\ PullRequestNodes = <<PR1>>
    /\ IssueNodes = <<ISLoose>>
    /\ CommitRepos = <<RC1>>
    /\ \E j \in 1..Len(contributions) :
          /\ contributions[j].title = "3 commits to api"
          /\ contributions[j].status = "Committed"
          /\ contributions[j].date = "2024-01-10"
    /\ \E j \in 1..Len(contributions) :
          /\ contributions[j]["type"] = "Issue"
          /\ contributions[j].date = "2024-01-09"
    /\ \E j \in 1..Len(contributions) :
          /\ contributions[j]["type"] = "Pull Request"
          /\ contributions[j].status = "MERGED"

BatchSizes == [k \in 1..Len(pages) |-> Len(BatchOf(pages[k]))]

\* the accumulator exists: fetch_contributions has passed its line 38
Accumulating == all_contributions # Unbound

\* s is the beginning of t
IsPrefix(s, t) == Len(s) <= Len(t) /\ SubSeq(t, 1, Len(s)) = s

\* C17: at every head of the loop the counter of fetched pull requests is the
\* length of the Aggregate's pull-request list and the sum of the batch sizes of
\* the pages processed so far; and the list only grows at its end: what it held
\* stays where it was.
C17_LoopInvariant ==
    /\ [](pc = "loop" =>
            /\ total_prs_fetched = Len(PullRequestNodes)
            /\ total_prs_fetched = SumSeq(BatchSizes))
    /\ [][Accumulating =>
            /\ Accumulating'
            /\ IsPrefix(PullRequestNodes,
                        all_contributions'.pullRequestContributions.nodes)]_vars

\* the loop is at its head after a page of one pull request and a page of two
C17_Witness ==
    /\ pc = "loop"
    /\ has_more_prs
    /\ BatchSizes = <<1, 2>>
    /\ total_prs_fetched = 3
    /\ PullRequestNodes = <<PR1, PR2, PRBad>>

IssueLists == [k \in 1..Len(pages) |-> pages[k].issueContributions.nodes]

CommitLists == [k \in 1..Len(pages) |-> pages[k].commitContributionsByRepository]

\* the earliest list of a sequence of lists that has an entry, or the empty list
FirstNonEmpty(lists) ==
    LET filled == {k \in 1..Len(lists) : lists[k] # <<>>}
    IN  IF filled = {} THEN <<>>
        ELSE lists[CHOOSE k \in filled : \A j \in filled : k <= j]

\* C18: the issue list of the Aggregate is that of the earliest page whose issue
\* list is not empty (empty if there is none), the commit list likewise and
\* independently of the issue list; once one of them is not empty no later page
\* changes it.
C18_StoreOnce ==
    /\ [](Accumulating =>
            /\ IssueNodes = FirstNonEmpty(IssueLists)
            /\ CommitRepos = FirstNonEmpty(CommitLists))
    /\ [][Accumulating =>
            /\ IssueNodes # <<>> => all_contributions'.issueContributions.nodes = IssueNodes
            /\ CommitRepos # <<>>
                   => all_contributions'.commitContributionsByRepository = CommitRepos]_vars

\* the returned issue list is the second page's and the commit list the third's
C18_Witness ==
    /\ pc = "fetched"
    /\ Len(pages) = 3
    /\ IssueLists = <<<<>>, <<IS1>>, <<>>>>
    /\ CommitLists = <<<<>>, <<>>, <<RC1>>>>
    /\ IssueNodes = <<IS1>>
    /\ CommitRepos = <<RC1>>

====
